---- MODULE Spec2Model ----
(***************************************************************************)
(* Model of src/Streamlit.py: the population dashboard.                    *)
(*                                                                         *)
(* A DataFrame is a sequence of rows (records); an optional value (Python  *)
(* None / pandas NaN against a present value) is the empty tuple <<>> for  *)
(* absent and the one-element tuple <<v>> for present.  A text is a        *)
(* sequence of code points, each written as a short string token.          *)
(*                                                                         *)
(* Three specifications:                                                   *)
(*   Spec        one browser session: every step is one rerun of main()    *)
(*               with a menu choice and widget values, or the expiry of    *)
(*               the st.cache_data entry of load_data;                     *)
(*   FilterSpec  filter_data applied to arbitrary inputs, then to its own  *)
(*               result;                                                   *)
(*   SuggestSpec sugerir_municipios applied to arbitrary inputs.           *)
(***************************************************************************)
EXTENDS Integers, Sequences, FiniteSets, TLC

VARIABLES
    df,        \* st.session_state['df']: None, or Some(DataFrame)
    cache,     \* st.cache_data entry of load_data(): None, or Some(result)
    menu,      \* the option_menu choice of the last run of main()
    page,      \* what the last run of main() put on the page
    dfWrites,  \* number of assignments to st.session_state.df (saturating)
    D,         \* FilterSpec / SuggestSpec: the DataFrame argument
    args,      \* FilterSpec / SuggestSpec: the other arguments
    pc,        \* FilterSpec / SuggestSpec: which call has returned
    out        \* FilterSpec / SuggestSpec: the returned value(s)

vars == <<df, cache, menu, page, dfWrites, D, args, pc, out>>

sessionVars == <<df, cache, menu, page, dfWrites>>
callVars == <<D, args, pc, out>>

----------------------------------------------------------------------------
(* Bounds *)

\* longest table the database returns in Spec
MaxRows == 2
\* longest DataFrame handed to filter_data / sugerir_municipios
MaxLen == 3
\* largest limite handed to sugerir_municipios in SuggestSpec
MaxLimit == 3
\* dfWrites saturates here
MaxWrites == 2

----------------------------------------------------------------------------
(* Optional values *)

None == <<>>
Some(x) == <<x>>
IsNone(o) == o = <<>>
Val(o) == o[1]

Min2(a, b) == IF a <= b THEN a ELSE b

\* Python's seq[:n]
Head_n(s, n) == SubSeq(s, 1, Min2(n, Len(s)))

\* the sequences over S of length at most n
SeqUpTo(S, n) == UNION {[1..k -> S] : k \in 0..n}

\* the values of a sequence
Range(s) == {s[i] : i \in 1..Len(s)}

----------------------------------------------------------------------------
(* Texts: municipality names and typed queries *)

\* "a_til" is the precomposed U+00E3, "til" the combining tilde U+0303
SaoAcc   == <<"S", "a_til", "o">>
SaoPlain == <<"S", "a", "o">>
Rio      == <<"R", "i", "o">>
RioLower == <<"r", "i", "o">>

Names == {SaoAcc, SaoPlain, Rio, RioLower}

Queries == {<<>>, <<"s", "a_til", "o">>}

\* unicodedata.normalize('NFD', c) of one code point
NFD(c) == IF c = "a_til" THEN <<"a", "til">> ELSE <<c>>

\* unicodedata.category(c)
category(c) ==
    IF c = "til" THEN "Mn"
    ELSE IF c \in {"S", "R"} THEN "Lu"
    ELSE "Ll"

\* str.lower() of one code point
lower(c) ==
    IF c = "S" THEN "s"
    ELSE IF c = "R" THEN "r"
    ELSE c

RECURSIVE decompose(_)
decompose(texto) ==
    IF texto = <<>> THEN <<>>
    ELSE NFD(Head(texto)) \o decompose(Tail(texto))

RECURSIVE strip_marks_lower(_)
strip_marks_lower(cs) ==
    IF cs = <<>> THEN <<>>
    ELSE (IF category(Head(cs)) # "Mn" THEN <<lower(Head(cs))>> ELSE <<>>)
         \o strip_marks_lower(Tail(cs))

remover_acentos_e_lower(texto) == strip_marks_lower(decompose(texto))

NormNames == {remover_acentos_e_lower(n) : n \in Names}

----------------------------------------------------------------------------
(* Rows *)

Row(ano, pop, cod, mun, uf, reg, lat) ==
    [Ano |-> ano, Populacao |-> pop, Codigo |-> cod, Municipio |-> mun,
     UF |-> uf, Regiao |-> reg, Latitude |-> lat, Longitude |-> lat]

\* a row of the SELECT, under the names of the query's columns
RawRow(ano, pop, cod, mun, uf, reg, lat) ==
    [ano_pesquisa |-> ano, numero_habitantes |-> pop, codigo |-> cod,
     nome_municipio |-> mun, uf |-> uf, nome_regiao |-> reg,
     latitude |-> lat, longitude |-> lat]

\* what the query can return: numero_habitantes and the coordinates may be
\* NULL, the same municipality name occurs with and without its accent
RawRows ==
    { RawRow(2020, Some(3), 11, SaoAcc,   "SP", "Sudeste", Some(1)),
      RawRow(2021, Some(1), 21, Rio,      "RJ", "Sudeste", None),
      RawRow(2020, None,    31, RioLower, "RS", "Sul",     Some(3)) }

\* rows of the DataFrames handed to filter_data and sugerir_municipios
Rows ==
    { Row("2020", Some(3), 11, SaoAcc,   "SP", "Sudeste", Some(1)),
      Row("2021", Some(1), 12, SaoPlain, "SP", "Sudeste", None),
      Row("2021", Some(2), 21, Rio,      "RJ", "Sudeste", Some(2)),
      Row("2020", Some(2), 31, RioLower, "RS", "Sul",     Some(3)) }

Anos == {"2019", "2020", "2021"}
UFs == {"SP", "RJ", "RS"}
Regioes == {"Sudeste", "Sul"}

----------------------------------------------------------------------------
(* pandas / heapq helpers *)

\* frame[frame[col] == val]: the rows that match, in the order of frame
Mask(frame, col, val) == SelectSeq(frame, LAMBDA r : r[col] = val)

\* Series.unique(): the distinct values in first-seen order
RECURSIVE unique(_)
unique(s) ==
    IF s = <<>> THEN <<>>
    ELSE LET init == unique(SubSeq(s, 1, Len(s) - 1))
             last == s[Len(s)]
         IN  IF last \in Range(init) THEN init ELSE Append(init, last)

\* frame[col]
Column(frame, col) == [i \in 1..Len(frame) |-> frame[i][col]]

\* list.index(x): the first position of x
index(s, x) == CHOOSE i \in 1..Len(s) : s[i] = x /\ \A j \in 1..(i - 1) : s[j] # x

Remove(s, i) == SubSeq(s, 1, i - 1) \o SubSeq(s, i + 1, Len(s))

\* position of the first of the largest keys of a sequence of <<item, key>>
FirstMax(sl) ==
    CHOOSE i \in 1..Len(sl) :
        /\ \A j \in 1..Len(sl) : sl[j][2] <= sl[i][2]
        /\ \A j \in 1..(i - 1) : sl[j][2] < sl[i][2]

\* heapq.nlargest(n, sl, key=lambda i: i[1]) and DataFrame.nlargest(n, col):
\* sorted(sl, key, reverse=True)[:n], equal keys in the order of sl
RECURSIVE nlargest(_, _)
nlargest(n, sl) ==
    IF n <= 0 \/ sl = <<>> THEN <<>>
    ELSE LET i == FirstMax(sl)
         IN  <<sl[i]>> \o nlargest(n - 1, Remove(sl, i))

\* sorted(s) of a sequence of integers
RECURSIVE sorted(_)
sorted(s) ==
    IF s = <<>> THEN <<>>
    ELSE LET i == CHOOSE i \in 1..Len(s) : \A j \in 1..Len(s) : s[i] <= s[j]
         IN  <<s[i]>> \o sorted(Remove(s, i))

\* sorted(frame[col].unique()) as a set: the options of a selectbox
Options(frame, col) == {frame[i][col] : i \in 1..Len(frame)}

----------------------------------------------------------------------------
(* filter_data *)

\* variant: the result is sliced from its second row
filter_data_drops_first(frame, ano, uf, regiao) ==
    LET f1 == IF ano # "Todos" THEN Mask(frame, "Ano", ano) ELSE frame
        f2 == IF uf # "Todos" THEN Mask(f1, "UF", uf) ELSE f1
        f3 == IF regiao # "Todas" THEN Mask(f2, "Regiao", regiao) ELSE f2
    IN  IF f3 = <<>> THEN f3 ELSE Tail(f3)

\* variant: the regiao mask is applied to the frame before the uf mask
filter_data_any(frame, ano, uf, regiao) ==
    LET f1 == IF ano # "Todos" THEN Mask(frame, "Ano", ano) ELSE frame
        f2 == IF uf # "Todos" THEN Mask(f1, "UF", uf) ELSE f1
        f3 == IF regiao # "Todas" THEN Mask(f1, "Regiao", regiao) ELSE f2
    IN  f3

filter_data(frame, ano, uf, regiao) ==
    LET filtered == frame
        f1 == IF ano # "Todos" THEN Mask(filtered, "Ano", ano) ELSE filtered
        f2 == IF uf # "Todos" THEN Mask(f1, "UF", uf) ELSE f1
        f3 == IF regiao # "Todas" THEN Mask(f2, "Regiao", regiao) ELSE f2
    IN  f3

----------------------------------------------------------------------------
(* sugerir_municipios *)

\* The scorer of process.extract (fuzz.WRatio against the normalized query)
\* is library code: it is any function from the candidates to a score.
Scores == {0, 100}
Scorers == [NormNames -> Scores]

\* process.extract(query, choices, limit=limit): every choice is scored
\* (score_cutoff = 0), then heapq.nlargest keeps the best `limit`
extract(scorer, choices, limit) ==
    LET sl == [i \in 1..Len(choices) |-> <<choices[i], scorer[choices[i]]>>]
    IN  nlargest(limit, sl)

\* list.index read from the end: the last position of x
rindex(s, x) == CHOOSE i \in 1..Len(s) : s[i] = x /\ \A j \in (i + 1)..Len(s) : s[j] # x

\* variant: the reverse lookup takes the last matching position
sugerir_municipios_last(municipio_digitado, frame, limite, scorer) ==
    LET municipios == unique(Column(frame, "Municipio"))
        municipios_normalizados ==
            [i \in 1..Len(municipios) |-> remover_acentos_e_lower(municipios[i])]
        sugestoes == extract(scorer, municipios_normalizados, limite)
    IN  [i \in 1..Len(sugestoes) |->
            municipios[rindex(municipios_normalizados, sugestoes[i][1])]]

\* variant: process.extract is called without the limit
sugerir_municipios_all(municipio_digitado, frame, limite, scorer) ==
    LET municipios == unique(Column(frame, "Municipio"))
        municipios_normalizados ==
            [i \in 1..Len(municipios) |-> remover_acentos_e_lower(municipios[i])]
        sugestoes == extract(scorer, municipios_normalizados, Len(municipios))
    IN  [i \in 1..Len(sugestoes) |->
            municipios[index(municipios_normalizados, sugestoes[i][1])]]

sugerir_municipios(municipio_digitado, frame, limite, scorer) ==
    LET municipios == unique(Column(frame, "Municipio"))
        municipios_normalizados ==
            [i \in 1..Len(municipios) |-> remover_acentos_e_lower(municipios[i])]
        municipio_digitado_normalizado == remover_acentos_e_lower(municipio_digitado)
        sugestoes == extract(scorer, municipios_normalizados, limite)
    IN  [i \in 1..Len(sugestoes) |->
            municipios[index(municipios_normalizados, sugestoes[i][1])]]

----------------------------------------------------------------------------
(* Numbers as the page shows them *)

\* a float: num/den, NaN when den = 0 (0/0 in pandas)
Rat(num, den) == [num |-> num, den |-> den]
IsNaN(x) == x.den = 0

\* round(num/den), halves to the even neighbour
RoundHalfEven(num, den) ==
    LET q == num \div den
        r == num % den
    IN  IF 2 * r < den THEN q
        ELSE IF 2 * r > den THEN q + 1
        ELSE IF q % 2 = 0 THEN q ELSE q + 1

\* round(sqrt(num/den)), halves to the even neighbour
RoundSqrt(num, den) ==
    LET n == CHOOSE n \in 0..num :
                 n * n * den <= num /\ (n + 1) * (n + 1) * den > num
        h == (2 * n + 1) * (2 * n + 1) * den
    IN  IF 4 * num > h THEN n + 1
        ELSE IF 4 * num < h THEN n
        ELSE IF n % 2 = 0 THEN n ELSE n + 1

\* f"{x:,.0f}" (no value of the model reaches a thousands separator)
Fmt(x) == IF IsNaN(x) THEN "nan" ELSE ToString(RoundHalfEven(x.num, x.den))
FmtSqrt(x) == IF IsNaN(x) THEN "nan" ELSE ToString(RoundSqrt(x.num, x.den))

----------------------------------------------------------------------------
(* Series statistics of exibir_estatisticas *)

RECURSIVE Sum(_)
Sum(s) == IF s = <<>> THEN 0 ELSE Head(s) + Sum(Tail(s))

Squares(s) == [i \in 1..Len(s) |-> s[i] * s[i]]

\* frame['Populacao'] of a loaded frame: no NaN is left
Populacoes(frame) == [i \in 1..Len(frame) |-> Val(frame[i].Populacao)]

\* Series.mean(): sum / count
mean(s) == Rat(Sum(s), Len(s))

\* Series.std() squared, ddof = 1: sum((x - mean)^2) / (N - 1),
\* written over the common denominator N * (N - 1)
variance(s) ==
    Rat(Len(s) * Sum(Squares(s)) - Sum(s) * Sum(s), Len(s) * (Len(s) - 1))

\* Series.quantile(p/4), linear interpolation between ranks
quantile(s, p) ==
    IF s = <<>> THEN Rat(0, 0)
    ELSE LET srt == sorted(s)
             pos == (Len(s) - 1) * p
             lo == pos \div 4 + 1
             hi == Min2(lo + 1, Len(s))
         IN  Rat(4 * srt[lo] + (pos % 4) * (srt[hi] - srt[lo]), 4)

\* Series.idxmin() / idxmax(): the first row with the extreme value
idxmin(s) ==
    CHOOSE i \in 1..Len(s) :
        (\A j \in 1..Len(s) : s[i] <= s[j]) /\ (\A j \in 1..(i - 1) : s[j] > s[i])
idxmax(s) ==
    CHOOSE i \in 1..Len(s) :
        (\A j \in 1..Len(s) : s[i] >= s[j]) /\ (\A j \in 1..(i - 1) : s[j] < s[i])

\* "{Municipio} ({UF}) - {Codigo}: {Populacao:,.0f} hab"
RowLabel(r) ==
    [Municipio |-> r.Municipio, UF |-> r.UF, Codigo |-> r.Codigo,
     Populacao |-> Fmt(Rat(Val(r.Populacao), 1))]

\* the three st.metric and the six rows of stats_data
describe(frame) ==
    LET s == Populacoes(frame)
    IN  [Municipios      |-> Len(frame),
         PopulacaoTotal  |-> Fmt(Rat(Sum(s), 1)),
         MediaMunicipal  |-> Fmt(mean(s)),
         PopulacaoMinima |-> RowLabel(frame[idxmin(s)]),
         PopulacaoMaxima |-> RowLabel(frame[idxmax(s)]),
         DesvioPadrao    |-> FmtSqrt(variance(s)),
         Quartil1        |-> Fmt(quantile(s, 1)),
         Mediana         |-> Fmt(quantile(s, 2)),
         Quartil3        |-> Fmt(quantile(s, 3))]

----------------------------------------------------------------------------
(* What one run of main() puts on the page *)

\* sugerir_municipios' default limite
DefaultLimite == 5
\* df.nlargest(10, ...) in display_graphs
TopN == 10
\* df.head(3) in carregar_dados
HeadRows == 3

BlankPage ==
    [kind     |-> "none",   \* the branch of main() / the chart type that ran
     warnings |-> {},       \* st.warning texts
     errors   |-> {},       \* st.error texts
     success  |-> {},       \* st.success texts
     loaded   |-> "n/a",    \* carregar_dados: "ok" / "failed"
     fetches  |-> 0,        \* carregar_dados: queries sent to the database
     table    |-> None,     \* carregar_dados: st.dataframe(df.head(3))
     criteria |-> None,     \* the values of the sidebar widgets
     filtered |-> None,     \* filtered_df, when the run got that far
     stats    |-> None,     \* the statistics shown
     chart    |-> None,     \* the figure handed to st.plotly_chart
     raised   |-> FALSE]    \* an exception left the run uncaught

\* frame[frame[col].isin(values)]
IsIn(frame, col, values) == SelectSeq(frame, LAMBDA r : r[col] \in Range(values))

\* frame.dropna(subset=cols)
dropna(frame, cols) == SelectSeq(frame, LAMBDA r : \A c \in cols : ~IsNone(r[c]))

\* groupby([x_col, 'Municipio'])['Populacao'].sum().reset_index(): one row
\* per group
groupby_sum(frame, x_col) ==
    { [x |-> k[1], Municipio |-> k[2],
       Populacao |-> Sum(Populacoes(SelectSeq(frame,
                        LAMBDA r : r[x_col] = k[1] /\ r.Municipio = k[2])))] :
      k \in {<<frame[i][x_col], frame[i].Municipio>> : i \in 1..Len(frame)} }

\* display_graphs(df, x_col, y_col, grafico)
display_graphs(pg, frame, x_col, y_col, grafico) ==
    IF frame = <<>>
    THEN [pg EXCEPT !.warnings =
              @ \cup {"Nenhum dado disponivel para os filtros selecionados"}]
    ELSE LET byPop == [i \in 1..Len(frame) |-> <<frame[i], Val(frame[i].Populacao)>>]
             top == nlargest(TopN, byPop)
             top_municipios == unique([i \in 1..Len(top) |-> top[i][1].Municipio])
             df_filtered == IsIn(frame, "Municipio", top_municipios)
         IN  IF grafico = "Barra"
             THEN [pg EXCEPT !.chart = Some([fig |-> "bar", data |-> df_filtered])]
             ELSE [pg EXCEPT !.chart =
                       Some([fig |-> "line", data |-> groupby_sum(df_filtered, x_col)])]

\* display_map(df)
display_map(pg, frame) ==
    IF frame # <<>>
    THEN [pg EXCEPT !.chart =
              Some([fig |-> "scatter_mapbox",
                    data |-> dropna(frame, {"Latitude", "Longitude"})])]
    ELSE [pg EXCEPT !.warnings =
              @ \cup {"Dados geograficos insuficientes para exibir o mapa"}]

\* px.treemap(filtered_df, ...) + st.plotly_chart, lines 360-369: no test of
\* filtered_df.empty.  On an empty frame the plotly version decides whether a
\* figure without data is drawn or an exception leaves the run: onEmpty
treemap(pg, frame, onEmpty) ==
    IF frame = <<>> /\ onEmpty = "raise"
    THEN [pg EXCEPT !.raised = TRUE]
    ELSE [pg EXCEPT !.chart = Some([fig |-> "treemap", data |-> frame])]

\* exibir_estatisticas() for the session value dfo and the sidebar choices
\* variant: the else branch of 'if not filtered_df.empty' is missing
StatsPage_silent(dfo, ano, estado, regiao) ==
    IF IsNone(dfo)
    THEN [BlankPage EXCEPT !.kind = "stats",
                           !.warnings = {"Carregue os dados primeiro"}]
    ELSE LET filtered_df == filter_data(Val(dfo), ano, estado, regiao)
             pg == [BlankPage EXCEPT
                        !.kind = "stats",
                        !.criteria = Some([ano |-> ano, estado |-> estado,
                                           regiao |-> regiao]),
                        !.filtered = Some(filtered_df)]
         IN  IF filtered_df # <<>>
             THEN [pg EXCEPT !.stats = Some(describe(filtered_df))]
             ELSE pg

StatsPage(dfo, ano, estado, regiao) ==
    IF IsNone(dfo)
    THEN [BlankPage EXCEPT !.kind = "stats",
                           !.warnings = {"Carregue os dados primeiro"}]
    ELSE LET filtered_df == filter_data(Val(dfo), ano, estado, regiao)
             pg == [BlankPage EXCEPT
                        !.kind = "stats",
                        !.criteria = Some([ano |-> ano, estado |-> estado,
                                           regiao |-> regiao]),
                        !.filtered = Some(filtered_df)]
         IN  IF filtered_df # <<>>
             THEN [pg EXCEPT !.stats = Some(describe(filtered_df))]
             ELSE [pg EXCEPT !.warnings =
                       {"Nenhum dado encontrado com os filtros selecionados"}]

\* st.selectbox over no options returns None, equal to no Ano
NoSelection == "None"

TiposGrafico == {"Mapa", "Grafico de Barras", "Grafico de Linhas", "Hierarquia"}

\* exibir_visualizacao() for the session value dfo and the widget values
\* (the slider num_municipios is read and never used)
VisPage(dfo, ano, estado, regiao, municipio_input, scorer, tipo_grafico, x_axis, onEmpty) ==
    IF IsNone(dfo)
    THEN [BlankPage EXCEPT !.kind = "vis",
                           !.warnings = {"Carregue os dados primeiro"}]
    ELSE LET frame == Val(dfo)
             sugestoes ==
                 IF municipio_input # <<>>
                 THEN sugerir_municipios(municipio_input, frame, DefaultLimite, scorer)
                 ELSE <<>>
             f1 == Mask(frame, "Ano", ano)
             f2 == IF estado # "Todos" THEN Mask(f1, "UF", estado) ELSE f1
             f3 == IF regiao # "Todas" THEN Mask(f2, "Regiao", regiao) ELSE f2
             filtered_df ==
                 IF municipio_input # <<>> /\ sugestoes # <<>>
                 THEN IsIn(f3, "Municipio", sugestoes)
                 ELSE f3
             pg == [BlankPage EXCEPT
                        !.kind = tipo_grafico,
                        !.criteria = Some([ano |-> ano, estado |-> estado,
                                           regiao |-> regiao,
                                           municipio_input |-> municipio_input]),
                        !.filtered = Some(filtered_df)]
         IN  IF tipo_grafico = "Mapa" THEN display_map(pg, filtered_df)
             ELSE IF tipo_grafico = "Grafico de Barras"
                  THEN display_graphs(pg, filtered_df, x_axis, "Populacao", "Barra")
             ELSE IF tipo_grafico = "Grafico de Linhas"
                  THEN display_graphs(pg, filtered_df, "Ano", "Populacao", "Linha")
             ELSE treemap(pg, filtered_df, onEmpty)

----------------------------------------------------------------------------
(* load_data *)

\* what pg.connect / pd.read_sql do in one call of load_data: a missing
\* secret, a refused connection, a failed query, or the table
DbOutcomes ==
    {[error |-> e, rows |-> <<>>] : e \in {"config", "connect", "query"}}
    \cup {[error |-> "none", rows |-> t] : t \in SeqUpTo(RawRows, MaxRows)}

\* df.rename(columns=mapeamento_colunas), df['Ano'].astype(str),
\* pd.to_numeric(df['Populacao'], errors='coerce') of one row
rename_and_type(raw) ==
    [Ano |-> ToString(raw.ano_pesquisa), Populacao |-> raw.numero_habitantes,
     Codigo |-> raw.codigo, Municipio |-> raw.nome_municipio, UF |-> raw.uf,
     Regiao |-> raw.nome_regiao, Latitude |-> raw.latitude,
     Longitude |-> raw.longitude]

\* variant: the except clause returns None without st.error
load_data_silent(outcome) ==
    IF outcome.error # "none"
    THEN [value |-> None, errors |-> {}]
    ELSE LET typed == [i \in 1..Len(outcome.rows) |-> rename_and_type(outcome.rows[i])]
         IN  [value |-> Some(dropna(typed, {"Populacao"})), errors |-> {}]

\* load_data(): the returned value and the st.error it emits
load_data(outcome) ==
    IF outcome.error # "none"
    THEN [value |-> None, errors |-> {"Erro ao carregar dados"}]
    ELSE LET typed == [i \in 1..Len(outcome.rows) |-> rename_and_type(outcome.rows[i])]
         IN  [value |-> Some(dropna(typed, {"Populacao"})), errors |-> {}]

----------------------------------------------------------------------------
(* Spec: one session *)

CallsIdle ==
    /\ D = <<>>
    /\ args = None
    /\ pc = "idle"
    /\ out = <<>>

Init ==
    /\ df = None
    /\ cache = None
    /\ menu = "none"
    /\ page = BlankPage
    /\ dfWrites = 0
    /\ CallsIdle

\* get_dataframe()
get_dataframe == df

LoadPage(res, fetches) ==
    IF ~IsNone(res.value)
    THEN [BlankPage EXCEPT !.kind = "load", !.errors = res.errors,
                           !.loaded = "ok", !.fetches = fetches,
                           !.success = {"Dados carregados com sucesso!"},
                           !.table = Some(Head_n(Val(res.value), HeadRows))]
    ELSE [BlankPage EXCEPT !.kind = "load", !.errors = res.errors,
                           !.loaded = "failed", !.fetches = fetches]

\* variant: the test 'if df is not None' is missing
carregar_dados_overwrites(res, fetches) ==
    /\ df' = res.value
    /\ dfWrites' = Min2(dfWrites + 1, MaxWrites)
    /\ page' = LoadPage(res, fetches)

\* carregar_dados() once load_data() has returned res
carregar_dados_body(res, fetches) ==
    /\ IF ~IsNone(res.value)
       THEN /\ df' = res.value
            /\ dfWrites' = Min2(dfWrites + 1, MaxWrites)
       ELSE UNCHANGED <<df, dfWrites>>
    /\ page' = LoadPage(res, fetches)

\* main() with menu = "Carregar Dados": load_data() answers from the
\* st.cache_data entry (the value, and the st.error replayed) while it
\* lives, and runs once and stores its result otherwise
carregar_dados ==
    /\ menu' = "Carregar Dados"
    /\ \/ /\ ~IsNone(cache)
          /\ carregar_dados_body(Val(cache), 0)
          /\ UNCHANGED cache
       \/ /\ IsNone(cache)
          /\ \E outcome \in DbOutcomes :
                /\ cache' = Some(load_data(outcome))
                /\ carregar_dados_body(load_data(outcome), 1)
    /\ UNCHANGED callVars

\* @st.cache_data(ttl=600): the entry expires
CacheExpire ==
    /\ ~IsNone(cache)
    /\ cache' = None
    /\ UNCHANGED <<df, menu, page, dfWrites>>
    /\ UNCHANGED callVars

\* main() with menu = "Estatisticas"
exibir_estatisticas ==
    /\ menu' = "Estatisticas"
    /\ \/ /\ IsNone(get_dataframe)
          /\ page' = StatsPage(get_dataframe, "Todos", "Todos", "Todas")
       \/ /\ ~IsNone(get_dataframe)
          /\ \E ano \in {"Todos"} \cup Options(Val(df), "Ano"),
                estado \in {"Todos"} \cup Options(Val(df), "UF"),
                regiao \in {"Todas"} \cup Options(Val(df), "Regiao") :
                page' = StatsPage(get_dataframe, ano, estado, regiao)
    /\ UNCHANGED <<df, cache, dfWrites>>
    /\ UNCHANGED callVars

\* the values the widgets of exibir_visualizacao can hold for a loaded
\* frame; a widget the run does not read is held at one value
VisInputs(frame) ==
    {w \in [ano : IF frame = <<>> THEN {NoSelection} ELSE Options(frame, "Ano"),
            estado : {"Todos"} \cup Options(frame, "UF"),
            regiao : {"Todas"} \cup Options(frame, "Regiao"),
            municipio_input : Queries,
            scorer : Scorers,
            tipo_grafico : TiposGrafico,
            x_axis : {"UF", "Regiao", "Municipio"},
            onEmpty : {"chart", "raise"}] :
        /\ w.municipio_input = <<>> => w.scorer = [n \in NormNames |-> 0]
        /\ w.tipo_grafico # "Grafico de Barras" => w.x_axis = "UF"
        /\ w.tipo_grafico # "Hierarquia" => w.onEmpty = "chart"}

\* the page of exibir_visualizacao for the widget values w
VisPageOf(dfo, w) ==
    VisPage(dfo, w.ano, w.estado, w.regiao, w.municipio_input, w.scorer,
            w.tipo_grafico, w.x_axis, w.onEmpty)

\* the page of exibir_visualizacao when no dataset is loaded
VisPageNoData ==
    VisPage(None, NoSelection, "Todos", "Todas", <<>>, [n \in NormNames |-> 0],
            "Mapa", "UF", "chart")

\* variant: the run stores filtered_df back into st.session_state.df
exibir_visualizacao_stores ==
    /\ menu' = "Visualizacao"
    /\ \/ /\ IsNone(get_dataframe)
          /\ page' = VisPageNoData
          /\ UNCHANGED df
       \/ /\ ~IsNone(get_dataframe)
          /\ \E w \in VisInputs(Val(df)) :
                /\ page' = VisPageOf(get_dataframe, w)
                /\ df' = page'.filtered
    /\ UNCHANGED <<cache, dfWrites>>
    /\ UNCHANGED callVars

\* main() with menu = "Visualizacao"
exibir_visualizacao ==
    /\ menu' = "Visualizacao"
    /\ \/ /\ IsNone(get_dataframe)
          /\ page' = VisPageNoData
       \/ /\ ~IsNone(get_dataframe)
          /\ \E w \in VisInputs(Val(df)) : page' = VisPageOf(get_dataframe, w)
    /\ UNCHANGED <<df, cache, dfWrites>>
    /\ UNCHANGED callVars

\* main(): one run per interaction
Next ==
    \/ carregar_dados
    \/ exibir_estatisticas
    \/ exibir_visualizacao
    \/ CacheExpire

Spec == Init /\ [][Next]_vars

----------------------------------------------------------------------------
(* FilterSpec: filter_data on arbitrary inputs, then on its own result *)

\* the session is not running in FilterSpec and SuggestSpec
SessionIdle ==
    /\ df = None
    /\ cache = None
    /\ menu = "none"
    /\ page = BlankPage
    /\ dfWrites = 0

FilterInit ==
    /\ SessionIdle
    /\ D \in SeqUpTo(Rows, MaxLen)
    /\ args \in [ano : Anos \cup {"Todos"},
                 uf : UFs \cup {"Todos"},
                 regiao : Regioes \cup {"Todas"}]
    /\ pc = "start"
    /\ out = <<>>

\* filtered = filter_data(D, ano, uf, regiao)
FilterOnce ==
    /\ pc = "start"
    /\ out' = <<filter_data(D, args.ano, args.uf, args.regiao)>>
    /\ pc' = "once"
    /\ UNCHANGED <<D, args>>
    /\ UNCHANGED sessionVars

\* filter_data(filtered, ano, uf, regiao)
FilterAgain ==
    /\ pc = "once"
    /\ out' = Append(out, filter_data(out[1], args.ano, args.uf, args.regiao))
    /\ pc' = "twice"
    /\ UNCHANGED <<D, args>>
    /\ UNCHANGED sessionVars

FilterNext == FilterOnce \/ FilterAgain

FilterSpec == FilterInit /\ [][FilterNext]_vars

----------------------------------------------------------------------------
(* SuggestSpec: sugerir_municipios on arbitrary inputs *)

SuggestInit ==
    /\ SessionIdle
    /\ D \in SeqUpTo(Rows, MaxLen)
    /\ args \in [query : Queries, limite : 0..MaxLimit, scorer : Scorers]
    /\ pc = "start"
    /\ out = <<>>

\* sugerir_municipios(query, D, limite)
Suggest ==
    /\ pc = "start"
    /\ out' = <<sugerir_municipios(args.query, D, args.limite, args.scorer)>>
    /\ pc' = "done"
    /\ UNCHANGED <<D, args>>
    /\ UNCHANGED sessionVars

SuggestNext == Suggest

SuggestSpec == SuggestInit /\ [][SuggestNext]_vars

----------------------------------------------------------------------------
(* Claims about filter_data (FilterSpec) *)

\* the rows the three criteria select together
Matches(r, ano, uf, regiao) ==
    /\ (ano = "Todos" \/ r.Ano = ano)
    /\ (uf = "Todos" \/ r.UF = uf)
    /\ (regiao = "Todas" \/ r.Regiao = regiao)

\* C1: filter_data(D, ano, uf, regiao) is exactly the rows of D that satisfy
\* (ano = "Todos" or Ano = ano) and (uf = "Todos" or UF = uf) and
\* (regiao = "Todas" or Regiao = regiao), in the order of D; with both
\* sentinels it is the rows selected by ano alone.
C1_FilterIsConjunction ==
    pc # "start" =>
        /\ out[1] = SelectSeq(D, LAMBDA r : Matches(r, args.ano, args.uf, args.regiao))
        /\ (args.uf = "Todos" /\ args.regiao = "Todas") =>
               out[1] = SelectSeq(D, LAMBDA r : args.ano = "Todos" \/ r.Ano = args.ano)

\* two different rows kept in order, others dropped, no sentinel used
C1_Witness ==
    /\ pc = "once"
    /\ args.ano # "Todos" /\ args.uf # "Todos" /\ args.regiao # "Todas"
    /\ Len(out[1]) >= 2
    /\ Len(out[1]) < Len(D)
    /\ D[1] \notin Range(out[1])

\* C2: filtering the result again with the same criteria changes nothing.
C2_FilterIdempotent ==
    pc = "twice" => out[2] = out[1]

\* a second pass over a result that is neither empty nor all of D
C2_Witness ==
    /\ pc = "twice"
    /\ out[1] # <<>>
    /\ out[1] # D
    /\ out[2] = out[1]

----------------------------------------------------------------------------
(* Claims about sugerir_municipios (SuggestSpec) *)

municipiosOf(frame) == unique(Column(frame, "Municipio"))

\* C7: at most limite names are returned, and none when limite = 0 or the
\* DataFrame has no municipality name.
C7_SuggestionBound ==
    pc = "done" =>
        /\ Len(out[1]) <= args.limite
        /\ (args.limite = 0 \/ municipiosOf(D) = <<>>) => out[1] = <<>>

\* the limit cut the list: more distinct names than limite >= 1
C7_Witness ==
    /\ pc = "done"
    /\ args.limite >= 1
    /\ Len(municipiosOf(D)) > args.limite
    /\ Len(out[1]) = args.limite

\* C8: the i-th name returned is the first of the distinct names whose
\* normalized form is the i-th best candidate; of two names with the same
\* normalized form only the first-seen one is ever returned.
C8_FirstOccurrence ==
    pc = "done" =>
        LET municipios == municipiosOf(D)
            normalizados ==
                [i \in 1..Len(municipios) |-> remover_acentos_e_lower(municipios[i])]
            sugestoes == extract(args.scorer, normalizados, args.limite)
        IN  /\ Len(out[1]) = Len(sugestoes)
            /\ \A i \in 1..Len(out[1]) :
                   \E k \in 1..Len(municipios) :
                       /\ out[1][i] = municipios[k]
                       /\ normalizados[k] = sugestoes[i][1]
                       /\ \A j \in 1..(k - 1) : normalizados[j] # normalizados[k]

\* two distinct names share a normalized form, both candidates matched, and
\* the first-seen name is returned for both
C8_Witness ==
    /\ pc = "done"
    /\ \E i, j \in 1..Len(out[1]) : i # j /\ out[1][i] = out[1][j]
    /\ \E n \in Range(municipiosOf(D)) :
           /\ n \notin Range(out[1])
           /\ remover_acentos_e_lower(n)
                  \in {remover_acentos_e_lower(m) : m \in Range(out[1])}

----------------------------------------------------------------------------
(* Claims about the session (Spec) *)

\* C3 as stated: the key 'df' starts absent and is written exactly once;
\* once populated, no later interaction writes it again.
C3_WrittenExactlyOnce ==
    /\ (dfWrites = 0 => IsNone(get_dataframe))
    /\ dfWrites <= 1

\* C3, amended: the key 'df' starts absent and stays absent until written;
\* only carregar_dados writes it, only when load_data returned a DataFrame,
\* and it writes that DataFrame (on every such run, not only the first).
C3_OnlyLoadWrites ==
    /\ IsNone(df) /\ dfWrites = 0
    /\ [](dfWrites = 0 <=> IsNone(df))
    /\ [][(df' # df \/ dfWrites' # dfWrites) =>
              /\ menu' = "Carregar Dados"
              /\ page'.loaded = "ok"
              /\ ~IsNone(cache') /\ df' = Val(cache').value
              /\ ~IsNone(df')]_vars

\* the key has been written a second time by a successful load
C3_Witness ==
    /\ dfWrites >= 2
    /\ menu = "Carregar Dados"
    /\ page.loaded = "ok"

\* C4 as stated: after a failed load an error is shown, nothing is retried,
\* no dataset is produced and get_dataframe() returns None.
C4_FailedLoadLeavesNoDataset ==
    page.loaded = "failed" =>
        /\ "Erro ao carregar dados" \in page.errors
        /\ page.fetches <= 1
        /\ IsNone(page.table)
        /\ IsNone(get_dataframe)

\* C4, amended: a failed load shows the error, sends at most one query,
\* produces no dataset and leaves the session's 'df' as it was: absent if
\* no earlier load succeeded, the earlier DataFrame otherwise.
C4_FailedLoadKeepsSession ==
    [][(menu' = "Carregar Dados" /\ page'.loaded = "failed") =>
           /\ "Erro ao carregar dados" \in page'.errors
           /\ page'.success = {}
           /\ page'.fetches <= 1
           /\ IsNone(page'.table)
           /\ df' = df
           /\ dfWrites' = dfWrites]_vars

\* a load failed at the database in a session that already holds a dataset
C4_Witness ==
    /\ page.loaded = "failed"
    /\ page.fetches = 1
    /\ ~IsNone(get_dataframe)

\* C5: whenever the filtered subset is empty, the run shows a warning,
\* builds no chart from it and raises nothing, on every rendering path.
C5_EmptySubsetWarned ==
    (~IsNone(page.filtered) /\ Val(page.filtered) = <<>>) =>
        /\ page.warnings # {}
        /\ IsNone(page.chart)
        /\ ~page.raised

\* C6: exibir_estatisticas computes the statistics exactly when a dataset is
\* loaded and the filtered subset is non-empty; otherwise it shows a warning
\* and computes nothing.
C6_StatsGuarded ==
    page.kind = "stats" =>
        IF IsNone(get_dataframe)
        THEN IsNone(page.stats) /\ page.warnings = {"Carregue os dados primeiro"}
        ELSE LET c == Val(page.criteria)
                 subset == filter_data(Val(df), c.ano, c.estado, c.regiao)
             IN  /\ subset = <<>> =>
                        /\ IsNone(page.stats)
                        /\ page.warnings =
                               {"Nenhum dado encontrado com os filtros selecionados"}
                 /\ subset # <<>> =>
                        /\ page.stats = Some(describe(subset))
                        /\ page.warnings = {}

\* the filter matched nothing in a loaded, non-empty dataset
C6_Witness ==
    /\ page.kind = "stats"
    /\ ~IsNone(get_dataframe)
    /\ Val(df) # <<>>
    /\ page.filtered = Some(<<>>)
    /\ IsNone(page.stats)

\* C9: a statistics or visualization run leaves the session dataset as it
\* was, rows and order, and does not write the key.
C9_ReadersLeaveDataset ==
    [][menu' \in {"Estatisticas", "Visualizacao"} =>
           /\ df' = df
           /\ dfWrites' = dfWrites]_vars

\* a visualization run charted a strictly narrower view of a loaded dataset
C9_Witness ==
    /\ menu = "Visualizacao"
    /\ ~IsNone(get_dataframe)
    /\ ~IsNone(page.filtered)
    /\ Val(page.filtered) # <<>>
    /\ Len(Val(page.filtered)) < Len(Val(df))
    /\ ~IsNone(page.chart)

\* C10: every statistic the page shows is defined: no mean, standard
\* deviation or quartile is shown as NaN, also for a subset of one row.
C10_StatsDefined ==
    ~IsNone(page.stats) =>
        LET st == Val(page.stats)
        IN  /\ st.MediaMunicipal # "nan"
            /\ st.DesvioPadrao # "nan"
            /\ st.Quartil1 # "nan"
            /\ st.Mediana # "nan"
            /\ st.Quartil3 # "nan"

====
